---- MODULE Spec2Model ----
(***************************************************************************)
(* Model of src/components/Navigation.jsx: the documentation sidebar.      *)
(*                                                                         *)
(* The state machine follows one NavigationGroup instance (its `group`     *)
(* prop is drawn from `navigation` when the tree is built) together with   *)
(* the VisibleSectionHighlight band and the ActivePageMarker it renders    *)
(* inside AnimatePresence.  The inputs are the router's pathname, the      *)
(* section store (sections, visibleSections) and the mobile-navigation     *)
(* context flag.  Every NavigationGroup of the tree is mounted by the same *)
(* render of Navigation (l.315-321) and reads the same router, store and   *)
(* context, so what any other group of the tree renders is given by the    *)
(* same operators applied to that group.                                   *)
(*                                                                         *)
(* Link and section titles and tags do not take part in any decision of    *)
(* the component and are left out; group titles are given in ASCII.        *)
(***************************************************************************)
EXTENDS Integers, Sequences, FiniteSets

VARIABLES
    isInsideMobileNavigation, \* useIsInsideMobileNavigation(): context, fixed per tree
    group,                    \* index in `navigation` of the NavigationGroup followed
    mounted,                  \* the Navigation tree is mounted
    pathname,                 \* live router.pathname
    storeSections,            \* live useSectionStore(s => s.sections), ids in document order
    storeVisibleSections,     \* live useSectionStore(s => s.visibleSections)
    groupInitial,             \* useRef(value).current of NavigationGroup's useInitialValue
    highlightInitial,         \* useRef(value).current of VisibleSectionHighlight's useInitialValue
    highlight,                \* the VisibleSectionHighlight child of its AnimatePresence
    marker                    \* the ActivePageMarker child of its AnimatePresence

vars == <<isInsideMobileNavigation, group, mounted, pathname, storeSections,
          storeVisibleSections, groupInitial, highlightInitial, highlight, marker>>

----------------------------------------------------------------------------
(* The navigation tree, l.186-306 (hrefs in array order).                  *)

L(h) == [href |-> h]

navigation ==
    << [title |-> "Javascript",
        links |-> <<L("/"), L("/quickstart"), L("/sdks"), L("/authentication"),
                    L("/pagination"), L("/errors")>>],
       [title |-> "Babel",
        links |-> <<L("/contacts"), L("/conversations"), L("/messages"), L("/groups"),
                    L("/attachments"), L("/attachments")>>],
       [title |-> "Wepback",
        links |-> <<L("/contacts"), L("/conversations"), L("/messages"), L("/groups"),
                    L("/webpack-config")>>],
       [title |-> "Next.js",
        links |-> <<L("/contacts"), L("/conversations"), L("/messages"), L("/groups"),
                    L("/attachments"), L("/attachments")>>],
       [title |-> "React",
        links |-> <<L("/contacts"), L("/conversations"), L("/messages"), L("/groups"),
                    L("/attachments")>>],
       [title |-> "Frontend algorithms",
        links |-> <<L("/contacts"), L("/contacts")>>],
       [title |-> "Shell",
        links |-> <<L("/contacts"), L("/conversations"), L("/messages")>>],
       [title |-> "Typescript",
        links |-> <<L("/contacts"), L("/conversations"), L("/messages"), L("/messages"),
                    L("/messages"), L("/messages"), L("/messages")>>],
       [title |-> "Vue",
        links |-> <<L("/contacts"), L("/conversations"), L("/messages"), L("/messages"),
                    L("/messages")>>],
       [title |-> "Frontend engineering",
        links |-> <<L("/contacts"), L("/conversations")>>],
       [title |-> "Networking",
        links |-> <<L("/contacts"), L("/conversations"), L("/messages"), L("/messages")>>],
       [title |-> "Performance",
        links |-> <<L("/contacts"), L("/conversations"), L("/conversations"),
                    L("/messages"), L("/messages"), L("/messages"), L("/messages"),
                    L("/messages")>>] >>

Groups == 1..Len(navigation)

LinkIndexes(g) == 1..Len(navigation[g].links)

----------------------------------------------------------------------------
(* Inputs.                                                                 *)

MaxSections == 2   \* number of headings of the document shown
MaxVisible == 2    \* longest visibleSections list the store holds

NotARealPath == "/not-a-real-path"

\* Every href of the tree, and a pathname that no link has.
Paths ==
    UNION {{navigation[g].links[i].href : i \in LinkIndexes(g)} : g \in Groups}
    \cup {NotARealPath}

\* The pathnames the router takes: for every group its first href, another of
\* its hrefs, an href it has more than once if there is one, and a pathname
\* that is not in it.
RoutePaths ==
    {"/", "/quickstart", "/contacts", "/conversations", "/messages", "/attachments",
     NotARealPath}

\* Section ids of a document, in document order.
DocSections == SubSeq(<<"intro", "usage", "api", "faq", "notes">>, 1, MaxSections)

\* The section lists the store holds: none (a page without headings, or a page
\* that has not registered them yet) or the headings of the document.
SectionLists == {<<>>, DocSections}

\* What the scroll observer can report as visible: a run of consecutive rows of
\* the document, the top of the page ('_top') being the row before its first
\* heading.  The run may name ids the section list does not hold at that time.
Rows == <<"_top">> \o DocSections

VisibleLists ==
    {SubSeq(Rows, a, a + n - 1) :
        <<a, n>> \in {<<a, n>> \in (1..Len(Rows)) \X (0..MaxVisible) :
                        /\ a + n - 1 <= Len(Rows)
                        /\ n = 0 => a = 1}}

----------------------------------------------------------------------------
(* Layout units.  remToPx (lib/remToPx) multiplies by the root font size;  *)
(* with the browser default of 16px, remToPx(2) = 32 and remToPx(0.25) = 4.*)

itemHeight == 32   \* l.70, l.91: remToPx(2)
offset == 4        \* l.92: remToPx(0.25)

Max(a, b) == IF a > b THEN a ELSE b   \* Math.max

----------------------------------------------------------------------------
(* Array.prototype.findIndex over ids and hrefs: the zero-based index of   *)
(* the first match in array order, -1 when there is none.                  *)

RECURSIVE findIndexFrom(_, _, _)
findIndexFrom(array, value, i) ==
    IF i > Len(array) THEN -1
    ELSE IF array[i] = value THEN i - 1
    ELSE findIndexFrom(array, value, i + 1)

findIndex(array, value) == findIndexFrom(array, value, 1)

\* group.links.map((link) => link.href) of every group
allHrefs ==
    [g \in Groups |-> [i \in LinkIndexes(g) |-> navigation[g].links[i].href]]

hrefs(g) == allHrefs[g]

\* findLastIndex in place of findIndex.
linkIndex_last(g, p) ==
    IF \E i \in LinkIndexes(g) : hrefs(g)[i] = p
    THEN (CHOOSE i \in LinkIndexes(g) :
            /\ hrefs(g)[i] = p
            /\ \A j \in LinkIndexes(g) : hrefs(g)[j] = p => j <= i) - 1
    ELSE -1

\* l.75, l.93, l.119: group.links.findIndex((link) => link.href === pathname)
linkIndex(g, p) == findIndex(hrefs(g), p)

----------------------------------------------------------------------------
(* Hooks.                                                                  *)

\* The condition ignored: always the value of this render.
useInitialValue_live(initialValue, value, condition) == value

\* l.13-16: useInitialValue returns the value of the first render when the
\* condition holds and the value of this render otherwise.
useInitialValue(initialValue, value, condition) ==
    IF condition THEN initialValue ELSE value

\* What a ref holds where l.15 never returns it.
UnreadGroupValue == [pathname |-> "", sections |-> <<>>]
UnreadHighlightValue == [sections |-> <<>>, visibleSections |-> <<>>]

\* l.14: useRef(value).current is the value given on the first render.  The
\* condition is the context flag, which never changes for a mounted tree; where
\* it is false l.15 never returns the ref, and the model keeps `unread` for it.
useRef(value, condition, unread) == IF condition THEN value ELSE unread

\* l.113-116: [useRouter(), useSectionStore((s) => s.sections)].  The router
\* given by useRouter() is a snapshot: a route change provides a new object.
groupValueOf(p, s) == [pathname |-> p, sections |-> s]

\* l.55-59: [useSectionStore((s) => s.sections), useSectionStore((s) => s.visibleSections)]
highlightValueOf(s, v) == [sections |-> s, visibleSections |-> v]

----------------------------------------------------------------------------
(* NavigationGroup, l.108-184.                                             *)

\* `> 0` in place of `!== -1`.
isActiveGroup_positive(g, p) == linkIndex(g, p) > 0

\* l.118-119
isActiveGroup(g, p) == linkIndex(g, p) # -1

\* A child of AnimatePresence (l.130-134, l.139-143): absent, present with the
\* props of the last render that requested it, or exiting (useIsPresent() is
\* false) with the props it had when it was last requested.
NoChild == [state |-> "absent", pathname |-> ""]

AnimatePresence(child, requested, p) ==
    IF requested THEN [state |-> "present", pathname |-> p]
    ELSE IF child.state = "absent" THEN NoChild
    ELSE [state |-> "exiting", pathname |-> child.pathname]

\* One render of the NavigationGroup followed, with the ref `initial` and the
\* live inputs p (router.pathname), s (sections), v (visibleSections).
Render(initial, p, s, v) ==
    LET value == useInitialValue(initial, groupValueOf(p, s), isInsideMobileNavigation)
        active == isActiveGroup(group, value.pathname)
    IN  /\ highlight' = AnimatePresence(highlight, active, value.pathname)
        /\ marker' = AnimatePresence(marker, active, value.pathname)
        /\ highlightInitial' =
              IF active /\ highlight.state = "absent"
              THEN useRef(highlightValueOf(s, v), isInsideMobileNavigation,
                          UnreadHighlightValue)
              ELSE highlightInitial

\* The values the mounted NavigationGroup renders with (l.113-116).
groupValue ==
    useInitialValue(groupInitial, groupValueOf(pathname, storeSections),
                    isInsideMobileNavigation)

router == [pathname |-> groupValue.pathname]

sections == groupValue.sections

\* l.147: active={link.href === router.pathname}
linkActive(g, i) == navigation[g].links[i].href = router.pathname

\* The test of sections.length left out.
expanded_ignoringSections(g, i) == navigation[g].links[i].href = router.pathname

\* l.151: link.href === router.pathname && sections.length > 0
expanded(g, i) ==
    navigation[g].links[i].href = router.pathname /\ Len(sections) > 0

\* l.131, l.140: isActiveGroup && <VisibleSectionHighlight/ActivePageMarker .../>
requested(g) == mounted /\ isActiveGroup(g, router.pathname)

----------------------------------------------------------------------------
(* VisibleSectionHighlight, l.54-88.                                       *)

\* useInitialValue left out of VisibleSectionHighlight.
highlightValue_live == highlightValueOf(storeSections, storeVisibleSections)

\* l.55-61
highlightValue ==
    useInitialValue(highlightInitial,
                    highlightValueOf(storeSections, storeVisibleSections),
                    isInsideMobileNavigation)

highlightSections == highlightValue.sections

visibleSections == highlightValue.visibleSections

\* l.63
isPresent == highlight.state = "present"

\* visibleSections[0]: undefined for an empty array, which equals no id.
first(array) == IF Len(array) = 0 THEN "undefined" ELSE array[1]

\* The '_top' row left out of the list searched.
firstVisibleSectionIndex_noTop(secs, visible) ==
    Max(0, findIndex(secs, first(visible)))

\* l.64-69
firstVisibleSectionIndex(secs, visible) ==
    Max(0, findIndex(<<"_top">> \o secs, first(visible)))

\* Math.max(1, ...) left out.
height_noFloor(present, visible) ==
    IF present THEN Len(visible) * itemHeight ELSE itemHeight

\* isPresent ignored.
height_ignoringPresence(present, visible) == Max(1, Len(visible)) * itemHeight

\* l.71-73
height(present, visible) ==
    IF present THEN Max(1, Len(visible)) * itemHeight ELSE itemHeight

\* l.74-76
highlightTopOf(g, p, secs, visible) ==
    linkIndex(g, p) * itemHeight + firstVisibleSectionIndex(secs, visible) * itemHeight

\* style={{ height, top }} of the band of the group followed (l.85).
highlightHeight == height(isPresent, visibleSections)

highlightTop ==
    highlightTopOf(group, highlight.pathname, highlightSections, visibleSections)

----------------------------------------------------------------------------
(* ActivePageMarker, l.90-106.                                             *)

\* The index not scaled by the row height.
markerTopOf_unscaled(g, p) == offset + linkIndex(g, p)

\* l.93-94
markerTopOf(g, p) == offset + linkIndex(g, p) * itemHeight

markerTop == markerTopOf(group, marker.pathname)

----------------------------------------------------------------------------
(* The state machine.                                                      *)

Init ==
    /\ isInsideMobileNavigation \in BOOLEAN
    /\ group \in Groups
    /\ mounted = FALSE
    /\ pathname \in RoutePaths
    /\ storeSections \in SectionLists
    /\ storeVisibleSections \in VisibleLists
    /\ groupInitial = UnreadGroupValue
    /\ highlightInitial = UnreadHighlightValue
    /\ highlight = NoChild
    /\ marker = NoChild

\* Navigation is rendered for the first time (l.308-330): every hook runs its
\* first render.
Mount ==
    /\ ~mounted
    /\ mounted' = TRUE
    /\ groupInitial' = useRef(groupValueOf(pathname, storeSections),
                              isInsideMobileNavigation, UnreadGroupValue)
    /\ Render(groupInitial', pathname, storeSections, storeVisibleSections)
    /\ UNCHANGED <<isInsideMobileNavigation, group, pathname, storeSections,
                   storeVisibleSections>>

\* The tree is removed (the mobile navigation is closed): its hooks' state is gone.
Unmount ==
    /\ mounted
    /\ mounted' = FALSE
    /\ groupInitial' = UnreadGroupValue
    /\ highlightInitial' = UnreadHighlightValue
    /\ highlight' = NoChild
    /\ marker' = NoChild
    /\ UNCHANGED <<isInsideMobileNavigation, group, pathname, storeSections,
                   storeVisibleSections>>

\* What a change of the inputs to p, s, v does to the tree: a new render when
\* it is mounted, nothing otherwise.
Rerender(p, s, v) ==
    IF mounted
    THEN Render(groupInitial, p, s, v) /\ UNCHANGED groupInitial
    ELSE UNCHANGED <<groupInitial, highlightInitial, highlight, marker>>

\* The router navigates to p.
RouteChange ==
    \E p \in RoutePaths \ {pathname} :
        /\ pathname' = p
        /\ Rerender(p, storeSections, storeVisibleSections)
        /\ UNCHANGED <<isInsideMobileNavigation, group, mounted, storeSections,
                       storeVisibleSections>>

\* The section store gets the section list of the document.
SetSections ==
    \E s \in SectionLists \ {storeSections} :
        /\ storeSections' = s
        /\ Rerender(pathname, s, storeVisibleSections)
        /\ UNCHANGED <<isInsideMobileNavigation, group, mounted, pathname,
                       storeVisibleSections>>

\* The scroll observer reports the sections now visible.
SetVisibleSections ==
    \E v \in VisibleLists \ {storeVisibleSections} :
        /\ storeVisibleSections' = v
        /\ Rerender(pathname, storeSections, v)
        /\ UNCHANGED <<isInsideMobileNavigation, group, mounted, pathname,
                       storeSections>>

\* The exit animation of the band ends (l.83): AnimatePresence removes it.
HighlightExitComplete ==
    /\ highlight.state = "exiting"
    /\ highlight' = NoChild
    /\ highlightInitial' = UnreadHighlightValue
    /\ UNCHANGED <<isInsideMobileNavigation, group, mounted, pathname, storeSections,
                   storeVisibleSections, groupInitial, marker>>

\* The exit animation of the marker ends (l.102).
MarkerExitComplete ==
    /\ marker.state = "exiting"
    /\ marker' = NoChild
    /\ UNCHANGED <<isInsideMobileNavigation, group, mounted, pathname, storeSections,
                   storeVisibleSections, groupInitial, highlightInitial, highlight>>

Next ==
    \/ Mount
    \/ Unmount
    \/ RouteChange
    \/ SetSections
    \/ SetVisibleSections
    \/ HighlightExitComplete
    \/ MarkerExitComplete

Spec == Init /\ [][Next]_vars

----------------------------------------------------------------------------
(* Properties.                                                             *)

SomeLinkHas(g, p) == \E i \in LinkIndexes(g) : navigation[g].links[i].href = p

\* The one-based position of the first link of g, in array order, with href p.
LeastMatch(g, p) ==
    CHOOSE i \in LinkIndexes(g) :
        /\ navigation[g].links[i].href = p
        /\ \A j \in 1..(i - 1) : navigation[g].links[j].href # p

AllLinks == UNION {{<<g, i>> : i \in LinkIndexes(g)} : g \in Groups}

ExpandedLinks == {l \in AllLinks : expanded(l[1], l[2])}

\* C1: for every group of the tree and every path, the group is active iff
\* some link of the group has that path as href; when no link has it, the group
\* is not active and findIndex gives -1.
C1_ActiveIffSomeLinkHasPath ==
    /\ \A p \in Paths :
          /\ isActiveGroup(group, p) <=> SomeLinkHas(group, p)
          /\ ~SomeLinkHas(group, p) =>
                ~isActiveGroup(group, p) /\ linkIndex(group, p) = -1
    /\ mounted =>
          \A g \in Groups : requested(g) <=> SomeLinkHas(g, router.pathname)

C1_Witness ==
    /\ mounted
    /\ requested(group)
    /\ \E g \in Groups : ~requested(g) /\ linkIndex(g, router.pathname) = -1

\* C2 as stated: the section part of the band's top is H times the index of the
\* first visible id within the section list (0 when it matches no section), so
\* it is 0, and the top is H times the link index, when the first visible id is
\* the first section.
C2_SectionIndexWithinSectionList ==
    highlight.state # "absent" =>
        LET k == findIndex(highlightSections, first(visibleSections))
            sectionPart == highlightTop - itemHeight * linkIndex(group, highlight.pathname)
        IN  /\ sectionPart = itemHeight * (IF k = -1 THEN 0 ELSE k)
            /\ (/\ Len(visibleSections) > 0
                /\ Len(highlightSections) > 0
                /\ visibleSections[1] = highlightSections[1])
               => /\ sectionPart = 0
                  /\ highlightTop = itemHeight * linkIndex(group, highlight.pathname)

\* C2 as amended: the section part of the band's top is H times the index of the
\* first visible id within the list made of the '_top' row followed by the
\* sections: H times (1 + its index in the section list) when it is a section,
\* and 0 when it is '_top', matches nothing or the visible list is empty.  When
\* the first visible id is the first section the part is H and the top is
\* H times (link index + 1).
C2_SectionIndexCountsTopRow ==
    highlight.state # "absent" =>
        LET k == findIndex(highlightSections, first(visibleSections))
            sectionPart == highlightTop - itemHeight * linkIndex(group, highlight.pathname)
        IN  /\ sectionPart = itemHeight * (IF k = -1 THEN 0 ELSE k + 1)
            /\ (Len(visibleSections) = 0 \/ first(visibleSections) = "_top")
               => sectionPart = 0
            /\ (/\ Len(visibleSections) > 0
                /\ Len(highlightSections) > 0
                /\ visibleSections[1] = highlightSections[1])
               => /\ sectionPart = itemHeight
                  /\ highlightTop =
                        itemHeight * (linkIndex(group, highlight.pathname) + 1)

C2_Witness ==
    /\ highlight.state = "present"
    /\ visibleSections = <<"intro", "usage">>
    /\ Len(highlightSections) > 0
    /\ highlightSections[1] = "intro"

\* C3: across the whole tree at most one link renders an expanded sub-section
\* list, and a link renders one only if its href is the current path.
C3_AtMostOneExpansion ==
    mounted =>
        /\ Cardinality(ExpandedLinks) <= 1
        /\ \A l \in ExpandedLinks : navigation[l[1]].links[l[2]].href = router.pathname

\* C4: inside the mobile navigation, while the tree stays mounted, no route
\* change and no store update changes the pathname, the section list or the
\* visible-section list that NavigationGroup and VisibleSectionHighlight use;
\* a mount captures the live values of that moment.
C4_FrozenInsideMobileNavigation ==
    [][isInsideMobileNavigation =>
          /\ (mounted /\ mounted') =>
                /\ router' = router
                /\ sections' = sections
                /\ highlight' = highlight
                /\ highlight.state # "absent" =>
                      /\ highlightSections' = highlightSections
                      /\ visibleSections' = visibleSections
          /\ (~mounted /\ mounted') =>
                /\ router'.pathname = pathname'
                /\ sections' = storeSections'
                /\ highlight'.state # "absent" =>
                      /\ highlight'.pathname = pathname'
                      /\ highlightSections' = storeSections'
                      /\ visibleSections' = storeVisibleSections']_vars

C4_Witness ==
    /\ isInsideMobileNavigation
    /\ mounted
    /\ highlight.state = "present"
    /\ router.pathname # pathname
    /\ sections # storeSections
    /\ visibleSections # storeVisibleSections

\* C5 as stated: whenever the band is rendered its height is H times the
\* length of the visible list when that is not empty, and H when it is empty.
C5_HeightFollowsVisibleCount ==
    highlight.state # "absent" =>
        highlightHeight =
            IF Len(visibleSections) = 0 THEN itemHeight
            ELSE itemHeight * Len(visibleSections)

\* C5 as amended: while the band is present its height is H times the length
\* of the visible list when that is not empty, and H when it is empty.
C5_HeightFollowsVisibleCountWhilePresent ==
    highlight.state = "present" =>
        highlightHeight =
            IF Len(visibleSections) = 0 THEN itemHeight
            ELSE itemHeight * Len(visibleSections)

C5_Witness ==
    /\ highlight.state = "present"
    /\ Len(visibleSections) = 0
    /\ highlightHeight = itemHeight

\* C6: the marker's top is O + H times the index of the active link in its
\* group, strictly increasing in that index; for the group Javascript and the
\* path /quickstart the group is active, the index is 1 and the top is O + H.
C6_MarkerTop ==
    /\ \A p \in Paths :
          SomeLinkHas(group, p) =>
              markerTopOf(group, p) = offset + itemHeight * (LeastMatch(group, p) - 1)
    /\ \A q \in Paths :
          (/\ SomeLinkHas(group, pathname)
           /\ SomeLinkHas(group, q)
           /\ LeastMatch(group, pathname) < LeastMatch(group, q))
          => markerTopOf(group, pathname) < markerTopOf(group, q)
    /\ navigation[1].title = "Javascript"
    /\ isActiveGroup(1, "/quickstart")
    /\ linkIndex(1, "/quickstart") = 1
    /\ markerTopOf(1, "/quickstart") = offset + itemHeight
    /\ marker.state # "absent" =>
          markerTop = offset + itemHeight * (LeastMatch(group, marker.pathname) - 1)
    /\ (mounted /\ group = 1 /\ router.pathname = "/quickstart") =>
          marker.state = "present" /\ markerTop = offset + itemHeight

C6_Witness ==
    /\ group = 1
    /\ marker.state = "present"
    /\ marker.pathname = "/quickstart"
    /\ markerTop = offset + itemHeight

C8_OneSnapshot ==
    mounted =>
        /\ highlight.state # "absent" => highlight.pathname = router.pathname
        /\ marker.state # "absent" => marker.pathname = router.pathname
        /\ highlight.state # "absent" => highlightSections = sections
        /\ ~isInsideMobileNavigation =>
              router.pathname = pathname /\ sections = storeSections
        /\ isInsideMobileNavigation =>
              router.pathname = groupInitial.pathname /\ sections = groupInitial.sections

\* C8 as amended: in every render the band and the marker that the render
\* requests are positioned by the pathname that decides the group's activity
\* and marks links active, and the band's section list is the expander's (both
\* live outside the mobile navigation, both the mount-time value inside it); a
\* band or marker that is exiting keeps the pathname of the last render that
\* requested it, for which its group was active.
C8_OneSnapshotForRequestedChildren ==
    mounted =>
        /\ highlight.state = "present" => highlight.pathname = router.pathname
        /\ marker.state = "present" => marker.pathname = router.pathname
        /\ highlight.state = "exiting" =>
              SomeLinkHas(group, highlight.pathname) /\ ~requested(group)
        /\ marker.state = "exiting" =>
              SomeLinkHas(group, marker.pathname) /\ ~requested(group)
        /\ \A i \in LinkIndexes(group) :
              linkActive(group, i) <=> navigation[group].links[i].href = router.pathname
        /\ highlight.state # "absent" => highlightSections = sections
        /\ ~isInsideMobileNavigation =>
              router.pathname = pathname /\ sections = storeSections
        /\ isInsideMobileNavigation =>
              router.pathname = groupInitial.pathname /\ sections = groupInitial.sections

C8_Witness ==
    /\ mounted
    /\ isInsideMobileNavigation
    /\ highlight.state = "present"
    /\ marker.state = "present"
    /\ storeSections # sections
    /\ ~SomeLinkHas(group, pathname)

\* C9: the band's height is H times max(1, number of visible sections) in every
\* state where it is present and exactly H in every state where it is exiting,
\* whatever the number of visible sections is.
C9_HeightPresentAndExiting ==
    LET n == Len(visibleSections)
    IN  /\ highlight.state = "present" =>
              highlightHeight = itemHeight * (IF n >= 1 THEN n ELSE 1)
        /\ highlight.state = "exiting" => highlightHeight = itemHeight
        /\ (highlight.state # "absent" /\ ~isInsideMobileNavigation) =>
              visibleSections = storeVisibleSections

C9_Witness ==
    /\ highlight.state = "exiting"
    /\ Len(visibleSections) >= 2
    /\ highlightHeight = itemHeight

\* C10: a group has a band and a marker requested iff it is active; the link
\* index that positions them is the least index whose href is the pathname,
\* never -1, so the marker's top is at least O and the band's top at least 0,
\* also when several links of the group are marked active.
C10_RequestedIffActiveIndexFound ==
    /\ ~mounted => highlight.state = "absent" /\ marker.state = "absent"
    /\ mounted =>
          /\ highlight.state = "present" <=> SomeLinkHas(group, router.pathname)
          /\ marker.state = "present" <=> SomeLinkHas(group, router.pathname)
          /\ \A g \in Groups :
                requested(g) =>
                    /\ linkIndex(g, router.pathname) = LeastMatch(g, router.pathname) - 1
                    /\ linkIndex(g, router.pathname) # -1
                    /\ markerTopOf(g, router.pathname) >= offset
                    /\ highlightTopOf(g, router.pathname, storeSections,
                                      storeVisibleSections) >= 0
          /\ highlight.state = "present" =>
                /\ linkIndex(group, highlight.pathname) =
                      LeastMatch(group, router.pathname) - 1
                /\ highlightTop >= 0
          /\ marker.state = "present" =>
                /\ linkIndex(group, marker.pathname) =
                      LeastMatch(group, router.pathname) - 1
                /\ markerTop >= offset

C10_Witness ==
    /\ mounted
    /\ highlight.state = "present"
    /\ marker.state = "present"
    /\ linkIndex(group, router.pathname) > 0
    /\ \E i \in LinkIndexes(group), j \in LinkIndexes(group) :
          i # j /\ linkActive(group, i) /\ linkActive(group, j)

====
